---------------------------- MODULE Spec2Model ----------------------------
(***************************************************************************)
(* Model of src/main.py: the VoteManager vote store (a dict from user id   *)
(* to choice, backed by a CSV file) as a state machine.                    *)
(*                                                                         *)
(* The backing file is modelled at the granularity the csv module works    *)
(* at: a file is a sequence of lines, a line a sequence of fields, a field *)
(* a string.  The first line is the header csv.DictReader takes its        *)
(* fieldnames from.  The in-memory dict is a sequence of records in        *)
(* insertion order (Python dicts keep insertion order).                    *)
(***************************************************************************)
EXTENDS Integers, Sequences, FiniteSets, TLC

VARIABLES
    file,       \* the backing file: [exists, lines]
    votes,      \* self._votes: sequence of [id, choice], insertion order
    last,       \* the operation that produced this state and its outcome
    okCount,    \* history: per user id, add_vote calls that returned True in this store instance
    cast,       \* history: per user id, the choice of its last add_vote that returned True (0: none)
    ioFailed,   \* history: some file operation has failed with an OS error so far
    loadClean,  \* history: this store instance's load met no OS error
    saved,      \* history: the map written by the last complete _save_votes, while the file still holds it
    ui          \* the MainWindow: page shown, current_user_id, widgets, timer

storeVars == <<file, votes, last, okCount, cast, ioFailed, loadClean, saved>>

vars == <<file, votes, last, okCount, cast, ioFailed, loadClean, saved, ui>>

---------------------------------------------------------------------------
(* Bounds and vocabulary *)

\* Most data lines (after the header) of a backing file a store is loaded
\* from, where only loading is exercised (LoadSpec).
MaxRows == 3

\* Most data lines of the backing file found at start-up, where every
\* operation is exercised (Spec).
MaxStartRows == 1

\* Most data lines of the backing file found at start-up, where the window
\* is exercised (UISpec).
MaxUiRows == 1

\* User ids the caller passes to add_vote and that occur in files: 4-digit strings.
UserIds == {"1234", "5678"}

\* Choices the caller passes to add_vote (1 = John, 2 = Jane).
Choices == {1, 2}

\* Python's None, as row.get returns it for a field the row does not have.
None == "<None>"

\* fieldnames of the DictWriter.
FIELDNAMES == <<"UserID", "Vote">>

---------------------------------------------------------------------------
(* Python conversions *)

\* str(choice), as csv.DictWriter.writerow writes an int field.
Str(n) ==
    CASE n = 1 -> "1"
      [] n = 2 -> "2"
      [] n = 3 -> "3"
      [] n = 1234 -> "1234"
      [] n = 5678 -> "5678"

\* The field strings int() accepts (it strips surrounding whitespace).
IsIntLiteral(s) == s \in {"1", "2", "3", " 2", "1234", "5678"}

\* int(choice) for a string int() accepts.
ParseInt(s) ==
    CASE s = "1" -> 1
      [] s = "2" -> 2
      [] s = " 2" -> 2
      [] s = "3" -> 3
      [] s = "1234" -> 1234
      [] s = "5678" -> 5678

\* Truth value of a field: None and the empty string are falsy.
Truthy(s) == s # None /\ s # ""

---------------------------------------------------------------------------
(* The dict self._votes *)

Keys(d) == {d[i].id : i \in 1..Len(d)}

\* user_id in self._votes
Has(d, k) == k \in Keys(d)

\* self._votes[k] for a key that is present
Get(d, k) == d[CHOOSE i \in 1..Len(d) : d[i].id = k].choice

\* Mutant of DictSet: the dict is replaced by one holding the new item alone.
DictSetFresh(d, k, v) == <<[id |-> k, choice |-> v]>>

\* self._votes[k] = v: a new key goes last, a present key keeps its place.
DictSet(d, k, v) ==
    IF Has(d, k)
    THEN [i \in 1..Len(d) |-> IF d[i].id = k THEN [id |-> k, choice |-> v] ELSE d[i]]
    ELSE Append(d, [id |-> k, choice |-> v])

---------------------------------------------------------------------------
(* csv.DictReader *)

Max(S) == CHOOSE x \in S : \A y \in S : y <= x

\* The reader's rows after the header; it skips blank lines.
DataRows(lines) ==
    IF lines = <<>> THEN <<>> ELSE SelectSeq(Tail(lines), LAMBDA l : l # <<>>)

\* row.get(key): the field under the last header column named key, None when
\* the header has no such column or the row is too short (restval).
RowGet(fn, row, key) ==
    LET idx == {i \in 1..Len(fn) : fn[i] = key}
    IN IF idx = {} THEN None
       ELSE IF Max(idx) <= Len(row) THEN row[Max(idx)] ELSE None

\* Mutant of RowAccepted: the guard tests the user id alone.
RowAcceptedIdOnly(user_id, choice) == Truthy(user_id)

\* if user_id and choice: the row is taken only when both fields are truthy.
RowAccepted(user_id, choice) == Truthy(user_id) /\ Truthy(choice)

\* The loop over the reader's rows: each accepted row is stored under its user
\* id with int(choice); int() raises ValueError on a field that is no integer
\* literal, which ends the loop with the rows stored so far kept.
RECURSIVE ReadRows(_, _, _)
ReadRows(fn, rows, d) ==
    IF rows = <<>> THEN [votes |-> d, err |-> "none"]
    ELSE LET row == Head(rows)
             user_id == RowGet(fn, row, "UserID")
             choice == RowGet(fn, row, "Vote")
         IN IF RowAccepted(user_id, choice)
            THEN IF IsIntLiteral(choice)
                 THEN ReadRows(fn, Tail(rows), DictSet(d, user_id, ParseInt(choice)))
                 ELSE [votes |-> d, err |-> "ValueError"]
            ELSE ReadRows(fn, Tail(rows), d)

---------------------------------------------------------------------------
(* File faults *)

NoFault == [kind |-> "none", at |-> 0, torn |-> FALSE]

\* An OS error while reading an existing file, raised after `at` data rows
\* were delivered; at = 0 also stands for open() itself failing.  A path that
\* holds no file is the path on which open() raises FileNotFoundError.
ReadFaults(f) ==
    {NoFault} \cup
    (IF f.exists
     THEN {[kind |-> "read", at |-> k, torn |-> FALSE] : k \in 0..Len(DataRows(f.lines))}
     ELSE {})

\* An OS error while writing `content`: open() fails and the file is left as
\* it was, or the write fails after open() truncated the file and `at` whole
\* lines reached it (fewer than all), with the next line torn after its first
\* field or not begun.
WriteFaults(content) ==
    {NoFault, [kind |-> "open", at |-> 0, torn |-> FALSE]} \cup
    {[kind |-> "write", at |-> j, torn |-> b] : j \in 0..(Len(content) - 1), b \in BOOLEAN}

---------------------------------------------------------------------------
(* Exceptions *)

\* isinstance(e, c) for the exception classes met here: FileNotFoundError is
\* an OSError, and OSError and ValueError are Exceptions.
IsInstance(e, c) ==
    \/ c = "Exception"
    \/ e = c
    \/ c = "OSError" /\ e = "FileNotFoundError"

\* The exception that leaves a try block whose handler names class c, when e
\* was raised in it ("none": nothing raised, or the handler caught it).
Escaping(e, c) == IF e = "none" \/ IsInstance(e, c) THEN "none" ELSE e

\* except Exception in _save_votes.
SaveHandler == "Exception"

\* Mutant of LoadHandler: the second handler names OSError.
LoadHandlerOSError == "OSError"

\* except Exception, the second handler of _load_votes.
LoadHandler == "Exception"

---------------------------------------------------------------------------
(* VoteManager *)

Absent == [exists |-> FALSE, lines |-> <<>>]

\* Mutant of SaveContent: only the newest record is written after the header.
SaveContentNewest(d) ==
    <<FIELDNAMES>> \o
    (IF d = <<>> THEN <<>> ELSE << <<d[Len(d)].id, Str(d[Len(d)].choice)>> >>)

\* Mutant of SaveContent: writerow puts the two values under the wrong columns.
SaveContentSwapped(d) ==
    <<FIELDNAMES>> \o [i \in 1..Len(d) |-> <<Str(d[i].choice), d[i].id>>]

\* What writeheader and the writerow loop write: the header, then one line per
\* item of the dict in its order.
SaveContent(d) ==
    <<FIELDNAMES>> \o [i \in 1..Len(d) |-> <<d[i].id, Str(d[i].choice)>>]

\* Mutant of save_votes: the file is opened for appending, the lines written
\* following the ones it held.
save_votes_append(f, d, wf) ==
    LET content == SaveContent(d)
        held == IF f.exists THEN f.lines ELSE <<>>
    IN CASE wf.kind = "none" ->
              [file |-> [exists |-> TRUE, lines |-> held \o content], err |-> "none",
               escaped |-> "none"]
         [] wf.kind = "open" ->
              [file |-> f, err |-> "OSError", escaped |-> Escaping("OSError", SaveHandler)]
         [] wf.kind = "write" ->
              [file |-> [exists |-> TRUE, lines |-> held \o SubSeq(content, 1, wf.at)],
               err |-> "OSError", escaped |-> Escaping("OSError", SaveHandler)]

\* _save_votes: open(mode="w") truncates and rewrites the file; any exception
\* is caught and printed.  Yields the file afterwards, the error raised in
\* the try block and the exception that leaves the method.
save_votes(f, d, wf) ==
    LET content == SaveContent(d)
    IN CASE wf.kind = "none" ->
              [file |-> [exists |-> TRUE, lines |-> content], err |-> "none",
               escaped |-> "none"]
         [] wf.kind = "open" ->
              [file |-> f, err |-> "OSError", escaped |-> Escaping("OSError", SaveHandler)]
         [] wf.kind = "write" ->
              [file |-> [exists |-> TRUE,
                         lines |-> SubSeq(content, 1, wf.at) \o
                                   (IF wf.torn THEN << <<content[wf.at + 1][1]>> >> ELSE <<>>)],
               err |-> "OSError", escaped |-> Escaping("OSError", SaveHandler)]

\* Mutant of load_votes: a missing file is not followed by _save_votes.
load_votes_nobootstrap(f, d, rf, wf) ==
    IF ~f.exists
    THEN [votes |-> d, file |-> f, err |-> "FileNotFoundError", saveErr |-> "none",
          escaped |-> "none"]
    ELSE LET fn == IF f.lines = <<>> THEN <<>> ELSE Head(f.lines)
             rows == DataRows(f.lines)
             delivered == IF rf.kind = "read" THEN SubSeq(rows, 1, rf.at) ELSE rows
             r == ReadRows(fn, delivered, d)
             raised == IF r.err = "none" /\ rf.kind = "read" THEN "OSError" ELSE r.err
         IN [votes |-> r.votes, file |-> f, err |-> raised, saveErr |-> "none",
             escaped |-> Escaping(raised, LoadHandler)]

\* _load_votes on a store holding d: open() raises FileNotFoundError on a
\* missing file, and the first handler then runs _save_votes; any other
\* exception of the try block goes to the second handler, which prints it,
\* the rows stored so far kept.
load_votes(f, d, rf, wf) ==
    LET fn == IF f.lines = <<>> THEN <<>> ELSE Head(f.lines)
        rows == DataRows(f.lines)
        delivered == IF rf.kind = "read" THEN SubSeq(rows, 1, rf.at) ELSE rows
        r == IF f.exists THEN ReadRows(fn, delivered, d) ELSE [votes |-> d, err |-> "none"]
        raised == IF ~f.exists THEN "FileNotFoundError"
                  ELSE IF r.err = "none" /\ rf.kind = "read" THEN "OSError"
                  ELSE r.err
    IN IF IsInstance(raised, "FileNotFoundError")
       THEN LET s == save_votes(f, r.votes, wf)
            IN [votes |-> r.votes, file |-> s.file, err |-> raised, saveErr |-> s.err,
                escaped |-> s.escaped]
       ELSE [votes |-> r.votes, file |-> f, err |-> raised, saveErr |-> "none",
             escaped |-> Escaping(raised, LoadHandler)]

\* __init__: an empty dict, then _load_votes.
construct(f, rf, wf) == load_votes(f, <<>>, rf, wf)

\* Mutant of add_vote: the membership test is missing.
add_vote_nocheck(f, d, user_id, choice, wf) ==
    LET d2 == DictSet(d, user_id, choice)
        s == save_votes(f, d2, wf)
    IN [votes |-> d2, file |-> s.file, ret |-> TRUE, saveErr |-> s.err, wrote |-> TRUE,
        escaped |-> s.escaped]

\* Mutant of add_vote: the vote is stored only once _save_votes has succeeded,
\* and False is returned when it has not.
add_vote_rollback(f, d, user_id, choice, wf) ==
    IF Has(d, user_id)
    THEN [votes |-> d, file |-> f, ret |-> FALSE, saveErr |-> "none", wrote |-> FALSE,
          escaped |-> "none"]
    ELSE LET d2 == DictSet(d, user_id, choice)
             s == save_votes(f, d2, wf)
         IN IF s.err = "none"
            THEN [votes |-> d2, file |-> s.file, ret |-> TRUE, saveErr |-> s.err, wrote |-> TRUE,
                  escaped |-> s.escaped]
            ELSE [votes |-> d, file |-> s.file, ret |-> FALSE, saveErr |-> s.err, wrote |-> TRUE,
                  escaped |-> s.escaped]

\* Mutant of add_vote: _save_votes runs before False is returned too.
add_vote_resave(f, d, user_id, choice, wf) ==
    IF Has(d, user_id)
    THEN LET s == save_votes(f, d, wf)
         IN [votes |-> d, file |-> s.file, ret |-> FALSE, saveErr |-> s.err, wrote |-> TRUE,
             escaped |-> s.escaped]
    ELSE LET d2 == DictSet(d, user_id, choice)
             s == save_votes(f, d2, wf)
         IN [votes |-> d2, file |-> s.file, ret |-> (s.escaped = "none"), saveErr |-> s.err,
             wrote |-> TRUE, escaped |-> s.escaped]

\* add_vote: False when the user id is present; otherwise the dict is
\* updated, _save_votes runs, and True is returned whatever _save_votes
\* caught (nothing is returned when an exception leaves _save_votes).
add_vote(f, d, user_id, choice, wf) ==
    IF Has(d, user_id)
    THEN [votes |-> d, file |-> f, ret |-> FALSE, saveErr |-> "none", wrote |-> FALSE,
          escaped |-> "none"]
    ELSE LET d2 == DictSet(d, user_id, choice)
             s == save_votes(f, d2, wf)
         IN [votes |-> d2, file |-> s.file, ret |-> (s.escaped = "none"), saveErr |-> s.err,
             wrote |-> TRUE, escaped |-> s.escaped]

\* has_voted
has_voted(d, user_id) == Has(d, user_id)

Count(d, v) == Cardinality({i \in 1..Len(d) : d[i].choice = v})

\* get_results
get_results(d) ==
    LET john_votes == Count(d, 1)
        jane_votes == Count(d, 2)
    IN [John |-> john_votes, Jane |-> jane_votes, Total |-> john_votes + jane_votes]

---------------------------------------------------------------------------
(* Backing files found at start-up *)

\* Headers of the files found: the one _save_votes writes, and the same
\* columns in the other order (DictReader finds fields by column name).
Headers == {FIELDNAMES, <<"Vote", "UserID">>}

\* Data lines under the header UserID,Vote: well-formed rows (two of them for
\* the same user id), a row whose Vote is an integer outside {1, 2}, rows whose
\* Vote is no integer, empty or absent, a row with an empty UserID, and a
\* blank line.
StdLines ==
    {<<"1234", "1">>, <<"5678", "2">>, <<"1234", "2">>, <<"1234", "3">>,
     <<"5678", "x">>, <<"5678", "">>, <<"5678">>, <<"", "1">>, <<>>}

Reverse(l) == [i \in 1..Len(l) |-> l[Len(l) + 1 - i]]

\* The same rows under a header h.
LinesFor(h) == IF h = FIELDNAMES THEN StdLines ELSE {Reverse(l) : l \in StdLines}

SeqsUpTo(S, n) == UNION {[1..k -> S] : k \in 0..n}

\* What open(self._filename) may find: no file, an empty file, or a header
\* and up to n data lines.
FilesUpTo(n) ==
    {Absent, [exists |-> TRUE, lines |-> <<>>]} \cup
    UNION {{[exists |-> TRUE, lines |-> <<h>> \o rows] :
                rows \in SeqsUpTo(LinesFor(h), n)} : h \in Headers}

---------------------------------------------------------------------------
(* MainWindow *)

\* The text of a line edit is a sequence of characters.
Digits == {"0", "1", "2", "3", "4", "5", "6", "7", "8", "9"}

Whitespace == {" "}

\* len(user_id) == 4
ID_LENGTH == 4

\* "Enter User ID (Ex. 0000)", the text return_to_vote_menu puts in vot_id_enter.
PROMPT ==
    <<"E", "n", "t", "e", "r", " ", "U", "s", "e", "r", " ", "I", "D", " ",
      "(", "E", "x", ".", " ", "0", "0", "0", "0", ")">>

INVALID_ID == "Error: Enter a 4-digit User ID."

ALREADY_VOTED == "This User ID has already voted."

\* What a user leaves in vot_id_enter: two ids, an id between blanks, four
\* characters not all digits, three digits, nothing, and the prompt.
Texts ==
    {<<"1", "2", "3", "4">>, <<"5", "6", "7", "8">>, <<" ", "1", "2", "3", "4", " ">>,
     <<"1", "2", "a", "4">>, <<"1", "2", "3">>, <<>>, PROMPT}

RECURSIVE LStrip(_)
LStrip(t) == IF t # <<>> /\ Head(t) \in Whitespace THEN LStrip(Tail(t)) ELSE t

\* str.strip()
Strip(t) == Reverse(LStrip(Reverse(LStrip(t))))

\* str.isdigit(): at least one character, and all of them digits.
IsDigit(t) == t # <<>> /\ \A i \in 1..Len(t) : t[i] \in Digits

\* The user id a sequence of characters spells, as the store knows it.
Join(t) ==
    CASE t = <<"1", "2", "3", "4">> -> "1234"
      [] t = <<"5", "6", "7", "8">> -> "5678"

\* The page of the stacked widget a widget lies on: the vote menu (0) holds
\* the vot_ widgets, the candidate page (1) the can_ widgets, the results
\* page (2) the res_ widgets.  A widget takes input only while its page is
\* the one shown.
PageOf(widget) ==
    CASE widget \in {"vot_id_enter", "vot_vote", "vot_exit"} -> 0
      [] widget \in {"can_cancel", "can_john", "can_jane", "can_confirm"} -> 1

\* MainWindow.__init__: the vote menu, no current user, the timer not started.
\* No radio button is read before _handle_vote_button checks can_cancel.
\* ev names the event handled last; cancelled is history, the user id whose
\* Confirm with Cancel selected was the last since the vote menu was reset.
UiStart ==
    [page |-> 0, current_user_id |-> <<>>, text |-> <<>>, radio |-> "none",
     error |-> "", timer |-> FALSE, ev |-> "start", cancelled |-> <<>>]

\* Mutant of show_results: the timer is not started.
show_results_notimer(u) == u

\* show_results: the labels are set from get_results (they are not kept
\* here), and the return timer starts.
show_results(u) == [u EXCEPT !.timer = TRUE]

\* return_to_vote_menu
return_to_vote_menu(u) ==
    [u EXCEPT !.timer = FALSE, !.page = 0, !.text = PROMPT, !.error = "",
              !.current_user_id = <<>>, !.cancelled = <<>>]

\* Mutant of handle_vote_button: has_voted is not asked.
handle_vote_button_noask(u, d) ==
    LET user_id == Strip(u.text)
    IN IF ~(IsDigit(user_id) /\ Len(user_id) = ID_LENGTH)
       THEN [u EXCEPT !.error = INVALID_ID]
       ELSE [u EXCEPT !.current_user_id = user_id, !.radio = "cancel", !.page = 1,
                      !.error = ""]

\* _handle_vote_button on a store holding d.
handle_vote_button(u, d) ==
    LET user_id == Strip(u.text)
    IN IF ~(IsDigit(user_id) /\ Len(user_id) = ID_LENGTH)
       THEN [u EXCEPT !.error = INVALID_ID]
       ELSE IF has_voted(d, Join(user_id))
       THEN [u EXCEPT !.error = ALREADY_VOTED]
       ELSE [u EXCEPT !.current_user_id = user_id, !.radio = "cancel", !.page = 1,
                      !.error = ""]

\* _handle_exit_button
handle_exit_button(u) == [show_results(u) EXCEPT !.page = 2]

\* Mutant of CancelSelected: Cancel is never taken as selected.
CancelSelectedNever(u) == FALSE

\* can_cancel.isChecked()
CancelSelected(u) == u.radio = "cancel"

\* choice = 1 if can_john.isChecked() else 2
ChoiceOf(u) == IF u.radio = "john" THEN 1 ELSE 2

---------------------------------------------------------------------------
(* History bookkeeping *)

NoneSaved == [ok |-> FALSE, map |-> <<>>]

\* The history variable saved after a _save_votes of d that met err.
SavedAfter(old, fOld, fNew, err, d) ==
    IF err = "none" THEN [ok |-> TRUE, map |-> d]
    ELSE IF fNew = fOld THEN old ELSE NoneSaved

\* The record of an operation: pre is the dict when it started, escaped the
\* exception that left it.
Op(op, uid, choice, ret, pre, err, saveErr, wasCast, escaped) ==
    [op |-> op, uid |-> uid, choice |-> choice, ret |-> ret, pre |-> pre,
     err |-> err, saveErr |-> saveErr, wasCast |-> wasCast, escaped |-> escaped]

\* The write faults a construction on f can meet: it writes only when the
\* file is missing.
ConstructWriteFaults(f) ==
    IF f.exists THEN {NoFault} ELSE WriteFaults(SaveContent(<<>>))

---------------------------------------------------------------------------
(* The state machine *)

\* The first store of the first process, constructed at start-up on one of
\* the backing files `files`.
InitOn(files) ==
    \E f \in files :
        \E rf \in ReadFaults(f), wf \in ConstructWriteFaults(f) :
            LET r == construct(f, rf, wf)
            IN /\ votes = r.votes
               /\ file = r.file
               /\ last = Op("construct", "", 0, FALSE, <<>>, r.err, r.saveErr, FALSE, r.escaped)
               /\ okCount = [u \in UserIds |-> 0]
               /\ cast = [u \in UserIds |-> 0]
               /\ ioFailed = (r.err = "OSError" \/ r.saveErr = "OSError")
               /\ loadClean = (r.err # "OSError")
               /\ saved = IF r.err = "FileNotFoundError"
                          THEN SavedAfter(NoneSaved, f, r.file, r.saveErr, r.votes)
                          ELSE NoneSaved
               /\ ui = UiStart

Init == InitOn(FilesUpTo(MaxStartRows))

\* The process ends and a new one starts: the dict is dropped and a new
\* VoteManager is constructed on the same backing file.
Restart ==
    \E rf \in ReadFaults(file), wf \in ConstructWriteFaults(file) :
        LET r == construct(file, rf, wf)
        IN /\ votes' = r.votes
           /\ file' = r.file
           /\ last' = Op("construct", "", 0, FALSE, <<>>, r.err, r.saveErr, FALSE, r.escaped)
           /\ okCount' = [u \in UserIds |-> 0]
           /\ cast' = cast
           /\ ioFailed' = (ioFailed \/ r.err = "OSError" \/ r.saveErr = "OSError")
           /\ loadClean' = (r.err # "OSError")
           /\ saved' = IF r.err = "FileNotFoundError"
                       THEN SavedAfter(saved, file, r.file, r.saveErr, r.votes)
                       ELSE saved
           /\ ui' = UiStart

\* The call self.vote_manager.add_vote(user_id, choice), under each outcome of
\* the write it makes.
AddVoteCall(user_id, choice) ==
    \E wf \in IF Has(votes, user_id) THEN {NoFault}
              ELSE WriteFaults(SaveContent(DictSet(votes, user_id, choice))) :
        LET r == add_vote(file, votes, user_id, choice, wf)
        IN /\ votes' = r.votes
           /\ file' = r.file
           /\ last' = Op("add_vote", user_id, choice, r.ret, votes,
                         "none", r.saveErr, cast[user_id] # 0, r.escaped)
           /\ okCount' = IF r.ret
                         THEN [okCount EXCEPT ![user_id] = IF @ < 2 THEN @ + 1 ELSE @]
                         ELSE okCount
           /\ cast' = IF r.ret THEN [cast EXCEPT ![user_id] = choice] ELSE cast
           /\ ioFailed' = (ioFailed \/ r.saveErr = "OSError")
           /\ saved' = IF r.wrote
                       THEN SavedAfter(saved, file, r.file, r.saveErr, r.votes)
                       ELSE saved
           /\ UNCHANGED loadClean

\* A call add_vote(user_id, choice).
AddVote ==
    \E user_id \in UserIds, choice \in Choices :
        AddVoteCall(user_id, choice) /\ UNCHANGED ui

\* A call has_voted(user_id).
HasVoted ==
    \E user_id \in UserIds :
        /\ last' = Op("has_voted", user_id, 0, has_voted(votes, user_id), votes,
                      "none", "none", FALSE, "none")
        /\ UNCHANGED <<file, votes, okCount, cast, ioFailed, loadClean, saved, ui>>

\* A call get_results().
GetResults ==
    /\ last' = Op("get_results", "", 0, FALSE, votes, "none", "none", FALSE, "none")
    /\ UNCHANGED <<file, votes, okCount, cast, ioFailed, loadClean, saved, ui>>

Next == Restart \/ AddVote \/ HasVoted \/ GetResults

Spec == Init /\ [][Next]_vars

\* Loading alone, on every backing file of up to MaxRows data lines.
LoadInit == InitOn(FilesUpTo(MaxRows))

LoadNext == Restart

LoadSpec == LoadInit /\ [][LoadNext]_vars

---------------------------------------------------------------------------
(* The window *)

\* The window opens on a store constructed on one of the backing files of up
\* to MaxUiRows data lines.
UIInit == InitOn(FilesUpTo(MaxUiRows))

\* The user edits vot_id_enter.
TypeText ==
    /\ ui.page = PageOf("vot_id_enter")
    /\ \E t \in Texts : ui' = [ui EXCEPT !.text = t, !.ev = "type"]
    /\ UNCHANGED storeVars

\* The user selects one of the radio buttons of the candidate page.
SelectRadio ==
    /\ ui.page = PageOf("can_john")
    /\ \E r \in {"cancel", "john", "jane"} : ui' = [ui EXCEPT !.radio = r, !.ev = "select"]
    /\ UNCHANGED storeVars

\* vot_vote.clicked
HandleVoteButton ==
    /\ ui.page = PageOf("vot_vote")
    /\ ui' = [handle_vote_button(ui, votes) EXCEPT !.ev = "vote"]
    /\ UNCHANGED storeVars

\* vot_exit.clicked
HandleExitButton ==
    /\ ui.page = PageOf("vot_exit")
    /\ ui' = [handle_exit_button(ui) EXCEPT !.ev = "exit"]
    /\ UNCHANGED storeVars

\* can_confirm.clicked: _handle_candidate_confirm
HandleCandidateConfirm ==
    /\ ui.page = PageOf("can_confirm")
    /\ IF CancelSelected(ui)
       THEN /\ ui' = [ui EXCEPT !.page = 0, !.ev = "confirm",
                                !.cancelled = ui.current_user_id]
            /\ UNCHANGED storeVars
       ELSE /\ AddVoteCall(Join(ui.current_user_id), ChoiceOf(ui))
            /\ ui' = [show_results(ui) EXCEPT !.page = 2, !.text = <<>>, !.ev = "confirm"]

\* return_timer.timeout
ReturnToVoteMenu ==
    /\ ui.timer
    /\ ui' = [return_to_vote_menu(ui) EXCEPT !.ev = "timeout"]
    /\ UNCHANGED storeVars

UINext ==
    \/ TypeText
    \/ SelectRadio
    \/ HandleVoteButton
    \/ HandleExitButton
    \/ HandleCandidateConfirm
    \/ ReturnToVoteMenu

UISpec == UIInit /\ [][UINext]_vars

\* The event loop delivers the timeout of a running timer.
UIFairSpec == UISpec /\ WF_vars(ReturnToVoteMenu)

---------------------------------------------------------------------------
(* Properties *)

\* Two dicts hold the same keys with the same choice for each key.
SameMap(a, b) ==
    /\ Len(a) = Len(b)
    /\ Keys(a) = Keys(b)
    /\ \A k \in Keys(a) : Get(a, k) = Get(b, k)

\* C1: within one store instance at most one add_vote call per user id
\* returns True, and an add_vote call for a user id that is present returns
\* False and leaves get_results() as it was before the call.
C1_Uniqueness ==
    /\ \A u \in UserIds : okCount[u] <= 1
    /\ (last.op = "add_vote" /\ Has(last.pre, last.uid))
          => /\ last.ret = FALSE
             /\ get_results(votes) = get_results(last.pre)

\* C1 witness: a second add_vote for a user id whose first call returned True
\* in this instance, with the other choice.
C1_Witness ==
    /\ last.op = "add_vote"
    /\ Has(last.pre, last.uid)
    /\ okCount[last.uid] = 1
    /\ Get(votes, last.uid) # last.choice
    /\ Len(votes) = 2

\* C2 (as claimed): in every reachable state get_results() has
\* Total = John + Jane and Total = the number of records in the dict.
C2_TallyCountsRecords ==
    LET r == get_results(votes)
    IN r.Total = r.John + r.Jane /\ r.Total = Len(votes)

\* C3: while no file operation has failed, every user id whose add_vote
\* returned True, in this or an earlier store instance, is present with the
\* choice it cast, and an add_vote for it returns False.
C3_VotesSurviveRestart ==
    ~ioFailed =>
        /\ \A u \in UserIds :
              cast[u] # 0 => has_voted(votes, u) /\ Get(votes, u) = cast[u]
        /\ (last.op = "add_vote" /\ last.wasCast) => ~last.ret

\* C3 witness: in a later store instance, add_vote for a user id that voted
\* in an earlier one, with the other choice, has returned False.
C3_Witness ==
    /\ ~ioFailed
    /\ last.op = "add_vote"
    /\ last.wasCast
    /\ okCount[last.uid] = 0
    /\ ~last.ret
    /\ cast[last.uid] # last.choice
    /\ Len(votes) = 2

\* C4: a store constructed, with no OS error, from the file a complete
\* _save_votes wrote loads without error and holds the same keys and choices
\* as the dict saved.
C4_RoundTrip ==
    (last.op = "construct" /\ last.err \notin {"OSError", "FileNotFoundError"} /\ saved.ok)
        => last.err = "none" /\ SameMap(votes, saved.map)

\* C4 witness: such a reload of two records that were inserted in descending
\* order of user id.
C4_Witness ==
    /\ last.op = "construct"
    /\ last.err = "none"
    /\ saved.ok
    /\ Len(saved.map) = 2
    /\ saved.map[1].id = "5678"
    /\ votes = saved.map

\* C5 (as claimed): after an operation in which a file read or write failed
\* with an OS error, the dict is the dict the operation started with.
C5_FailureLeavesMapAsBefore ==
    (last.saveErr = "OSError" \/ last.err = "OSError") => votes = last.pre

\* C6 (as claimed): after a load that failed with an error other than the
\* file not existing, the dict is empty.
C6_FailedLoadLeavesMapEmpty ==
    (last.op = "construct" /\ last.err \in {"OSError", "ValueError"}) => votes = <<>>

\* The fields of a data row under the header fn.
RowUid(fn, row) == RowGet(fn, row, "UserID")

RowVote(fn, row) == RowGet(fn, row, "Vote")

\* A row of the file format: a 4-digit user id and a choice of 1 or 2.
WellFormedRow(fn, row) == RowUid(fn, row) \in UserIds /\ RowVote(fn, row) \in {"1", "2"}

\* A row with an empty or absent UserID or Vote.
MissingFieldRow(fn, row) ==
    RowUid(fn, row) \in {None, ""} \/ RowVote(fn, row) \in {None, ""}

\* A row whose Vote is present but no integer literal.
MalformedChoiceRow(fn, row) ==
    /\ RowUid(fn, row) \in UserIds
    /\ RowVote(fn, row) \notin {None, ""}
    /\ ~IsIntLiteral(RowVote(fn, row))

\* The data lines of the file the store was just loaded from.
LoadedLines == IF file.lines = <<>> THEN <<>> ELSE Tail(file.lines)

LoadedHeader == IF file.lines = <<>> THEN <<>> ELSE Head(file.lines)

\* The store was just constructed by reading an existing file to its end.
LoadedWithoutOSError ==
    last.op = "construct" /\ last.err \in {"none", "ValueError"}

\* C7 (as claimed): loading a file whose rows are well-formed or have a
\* malformed choice yields a record for every well-formed row.
C7_MalformedRowSkippedAlone ==
    (/\ LoadedWithoutOSError
     /\ \A i \in 1..Len(LoadedLines) :
           \/ WellFormedRow(LoadedHeader, LoadedLines[i])
           \/ MalformedChoiceRow(LoadedHeader, LoadedLines[i]))
    => \A i \in 1..Len(LoadedLines) :
           WellFormedRow(LoadedHeader, LoadedLines[i])
               => Has(votes, RowUid(LoadedHeader, LoadedLines[i]))

\* The user ids of the well-formed rows of the file just loaded.
WellFormedIds ==
    {RowUid(LoadedHeader, LoadedLines[i]) :
        i \in {j \in 1..Len(LoadedLines) : WellFormedRow(LoadedHeader, LoadedLines[j])}}

\* C8: loading a file whose rows are each well-formed or missing a field
\* ends without error with exactly one record per user id of a well-formed
\* row, carrying the choice of a well-formed row of that user id, and no
\* other record.
C8_MissingFieldRowsSkipped ==
    (/\ LoadedWithoutOSError
     /\ \A i \in 1..Len(LoadedLines) :
           \/ WellFormedRow(LoadedHeader, LoadedLines[i])
           \/ MissingFieldRow(LoadedHeader, LoadedLines[i]))
    => /\ last.err = "none"
       /\ Keys(votes) = WellFormedIds
       /\ Len(votes) = Cardinality(WellFormedIds)
       /\ \A k \in 1..Len(votes) :
             \E i \in 1..Len(LoadedLines) :
                 /\ WellFormedRow(LoadedHeader, LoadedLines[i])
                 /\ RowUid(LoadedHeader, LoadedLines[i]) = votes[k].id
                 /\ \/ RowVote(LoadedHeader, LoadedLines[i]) = "1" /\ votes[k].choice = 1
                    \/ RowVote(LoadedHeader, LoadedLines[i]) = "2" /\ votes[k].choice = 2

\* C8 witness: a file of a row missing its Vote followed by a well-formed
\* row has loaded exactly one record.
C8_Witness ==
    /\ LoadedWithoutOSError
    /\ Len(LoadedLines) = 2
    /\ MissingFieldRow(LoadedHeader, LoadedLines[1])
    /\ RowUid(LoadedHeader, LoadedLines[1]) \in UserIds
    /\ WellFormedRow(LoadedHeader, LoadedLines[2])
    /\ Len(votes) = 1
    /\ votes[1].id = RowUid(LoadedHeader, LoadedLines[2])

\* C9: a store constructed where no file exists is empty, and unless the
\* write failed the file then exists and holds the header line alone.
C9_Bootstrap ==
    (last.op = "construct" /\ last.err = "FileNotFoundError")
        => /\ votes = <<>>
           /\ last.saveErr = "none"
                 => file = [exists |-> TRUE, lines |-> << <<"UserID", "Vote">> >>]

\* C9 witness: a store was constructed where no file existed and the write
\* succeeded.
C9_Witness ==
    /\ last.op = "construct"
    /\ last.err = "FileNotFoundError"
    /\ last.saveErr = "none"
    /\ file.exists

\* add_vote for an absent user id has just met a failed write.
FailedWriteOfNewVote ==
    /\ last.op = "add_vote"
    /\ ~Has(last.pre, last.uid)
    /\ last.saveErr = "OSError"

\* add_vote returned True and the vote counts in has_voted and get_results.
AcceptedInMemory ==
    /\ last.ret = TRUE
    /\ has_voted(votes, last.uid)
    /\ get_results(votes).Total = get_results(last.pre).Total + 1
    /\ last.choice = 1 => get_results(votes).John = get_results(last.pre).John + 1
    /\ last.choice = 2 => get_results(votes).Jane = get_results(last.pre).Jane + 1

\* Every store constructed from the file as it is now lacks the user id of
\* the last operation and accepts an add_vote for it.
NotInFile ==
    \A rf \in ReadFaults(file), wf \in ConstructWriteFaults(file) :
        LET r == construct(file, rf, wf)
        IN /\ ~has_voted(r.votes, last.uid)
           /\ \A c \in Choices : add_vote(r.file, r.votes, last.uid, c, NoFault).ret

C11_PresentStaysPresent ==
    [][last'.op # "construct"
          => \A u \in Keys(votes) : Has(votes', u) /\ Get(votes', u) = Get(votes, u)]_vars

\* C11 witness: a second user id was added and the first record is as it was.
C11_Witness ==
    /\ last.op = "add_vote"
    /\ last.ret
    /\ Len(last.pre) = 1
    /\ Len(votes) = 2
    /\ votes[1] = last.pre[1]

\* C12: no exception leaves the constructor, _save_votes or add_vote,
\* whatever the file operations met.
C12_NoExceptionEscapes == last.escaped = "none"

\* C12 witness: after an earlier OS error, a store was constructed on a file
\* with an unparsable Vote: int() raised ValueError and the handler caught it.
C12_Witness ==
    /\ last.op = "construct"
    /\ last.err = "ValueError"
    /\ ioFailed
    /\ last.escaped = "none"

\* The last operation ran _save_votes and it met no error.
SaveCompleted ==
    /\ last.saveErr = "none"
    /\ \/ last.op = "add_vote" /\ last.ret
       \/ last.op = "construct" /\ last.err = "FileNotFoundError"

\* C13: after a _save_votes that met no error the file is the header line
\* UserID,Vote followed by one row per record of the map, in insertion order,
\* and nothing else.
C13_SaveOverwrites ==
    SaveCompleted =>
        /\ file.exists
        /\ Len(file.lines) = Len(votes) + 1
        /\ file.lines[1] = <<"UserID", "Vote">>
        /\ \A i \in 1..Len(votes) : file.lines[i + 1] = <<votes[i].id, Str(votes[i].choice)>>

\* C13 witness: a save of two records completed after an earlier write had
\* failed and left other contents behind.
C13_Witness ==
    /\ SaveCompleted
    /\ last.op = "add_vote"
    /\ Len(votes) = 2
    /\ ioFailed
    /\ loadClean

\* C14: has_voted, get_results and an add_vote that returns False leave the
\* map and the backing file as they were.
C14_QueriesChangeNothing ==
    [][(\/ last'.op \in {"has_voted", "get_results"}
        \/ last'.op = "add_vote" /\ ~last'.ret)
           => votes' = votes /\ file' = file]_vars

\* C14 witness: add_vote returned False on a store whose file is not what a
\* save of the map would write.
C14_Witness ==
    /\ last.op = "add_vote"
    /\ ~last.ret
    /\ votes = last.pre
    /\ file.exists
    /\ file.lines # SaveContent(votes)

\* The well-formed rows of user id u in the file just loaded.
DupRows(u) ==
    {i \in 1..Len(LoadedLines) :
        /\ WellFormedRow(LoadedHeader, LoadedLines[i])
        /\ RowUid(LoadedHeader, LoadedLines[i]) = u}

LastOf(S) == CHOOSE i \in S : \A j \in S : j <= i

\* C18 (as claimed): after loading a file that holds several well-formed rows
\* of one user id, the map holds exactly one record of that user id, with the
\* choice of the last of these rows, and a save would write one row for it.
C18_LastDuplicateWins ==
    LoadedWithoutOSError =>
        \A u \in UserIds :
            Cardinality(DupRows(u)) >= 2 =>
                /\ Cardinality({k \in 1..Len(votes) : votes[k].id = u}) = 1
                /\ Get(votes, u) = ParseInt(RowVote(LoadedHeader, LoadedLines[LastOf(DupRows(u))]))
                /\ Cardinality({i \in 1..Len(SaveContent(votes)) :
                                    SaveContent(votes)[i][1] = u}) = 1

\* A string of exactly four characters, each a digit.
FourDigits(t) == Len(t) = 4 /\ \A i \in 1..Len(t) : t[i] \in Digits

\* The last event was a Confirm that went on to add_vote.
ConfirmedVote == ui.ev = "confirm" /\ ui.page = 2

\* C15: while the candidate page is shown current_user_id is a 4-digit string
\* the store does not hold; and the add_vote of a Confirm returned True and
\* stored, under that 4-digit id, a choice of 1 or 2.
C15_CandidatePageUser ==
    /\ ui.page = 1 =>
           /\ FourDigits(ui.current_user_id)
           /\ ~Has(votes, Join(ui.current_user_id))
    /\ ConfirmedVote =>
           /\ FourDigits(ui.current_user_id)
           /\ last.op = "add_vote"
           /\ last.uid = Join(ui.current_user_id)
           /\ last.ret
           /\ last.choice \in {1, 2}
           /\ Has(votes, last.uid)
           /\ Get(votes, last.uid) = last.choice

\* C15 witness: a second user has voted through the window.
C15_Witness ==
    /\ ConfirmedVote
    /\ last.ret
    /\ Len(votes) = 2
    /\ Len(last.pre) = 1

\* C16: the timer runs whenever the results page is shown and never while
\* the vote menu or the candidate page is; and the results page is always
\* followed by the vote menu with the timer stopped and no current user.
C16_TimerReturns ==
    /\ [](ui.page = 2 => ui.timer)
    /\ [](ui.page \in {0, 1} => ~ui.timer)
    /\ (ui.page = 2) ~> (ui.page = 0 /\ ~ui.timer /\ ui.current_user_id = <<>>)

\* C16 witness: the timer has brought the window back to the vote menu after
\* a vote was recorded.
C16_Witness ==
    /\ ui.ev = "timeout"
    /\ ui.page = 0
    /\ ~ui.timer
    /\ ui.current_user_id = <<>>
    /\ votes # <<>>
    /\ last.op = "add_vote"

\* C17: a Confirm with Cancel selected leaves the map and the file as they
\* were and shows the vote menu, where the Vote button would admit the same
\* user again; and a vote this user then confirms is recorded.
C17_CancelRecordsNothing ==
    /\ [][(ui.page = 1 /\ ui.radio = "cancel" /\ ui'.ev = "confirm") =>
              /\ votes' = votes
              /\ file' = file
              /\ ui'.page = 0
              /\ handle_vote_button(ui', votes').page = 1
              /\ handle_vote_button(ui', votes').current_user_id = ui.current_user_id]_vars
    /\ []((ConfirmedVote /\ ui.cancelled = ui.current_user_id) =>
              /\ last.ret
              /\ Has(votes, Join(ui.current_user_id)))

\* C17 witness: a user who had cancelled has entered the candidate page again
\* and voted.
C17_Witness ==
    /\ ConfirmedVote
    /\ ui.cancelled = ui.current_user_id
    /\ last.ret
    /\ last.uid = Join(ui.current_user_id)

===========================================================================
